---- MODULE Spec2Model ----
(***************************************************************************)
(* Model of api/index.py: the two code-table parsers, load_code_table,     *)
(* query_item and the POST/GET handler index().                            *)
(*                                                                         *)
(* Text is a sequence of characters, each character a one-element string.  *)
(* ASCII characters are written as themselves ("1", " ", "-", "#", "\n").  *)
(* A CJK character is one character too, written as its pinyin token:      *)
(*   dan xia   = the magazine keyword        qiang kou = the muzzle keyword *)
(*   wo ba     = the grip keyword            miao ju   = sight keyword 1    *)
(*   miao zhun jing = sight keyword 2        ji miao   = sight keyword 3    *)
(*   bu qiang  = "rifle"                     jin se tu zhuang = "gold skin" *)
(*   di tie    = the subway marker           wei zhao dao = "not found"     *)
(* A dict is a function whose DOMAIN is its key set.                        *)
(***************************************************************************)
EXTENDS Integers, Sequences, FiniteSets, TLC

VARIABLES
    generic_file,      \* the file at code_table_path
    subway_file,       \* the file at subway_code_table_path
    item_dict,         \* id -> [name, type, parent]
    main_weapon_dict,  \* id -> name
    sub_to_main_dict,  \* id -> parent id
    subway_item_dict,  \* id -> [name, hex_code]
    user_input,        \* request.form['user_input'] of the POST being served
    final_text,        \* index(): final_text handed to the template
    error_message,     \* index(): error_message handed to the template
    query_codes,       \* argument of the last direct query_item call
    query_result,      \* its return value
    op                 \* the operation that ran last

vars == <<generic_file, subway_file, item_dict, main_weapon_dict, sub_to_main_dict,
          subway_item_dict, user_input, final_text, error_message, query_codes,
          query_result, op>>

dicts == <<item_dict, main_weapon_dict, sub_to_main_dict, subway_item_dict>>
files == <<generic_file, subway_file>>
request == <<user_input, final_text, error_message>>
query == <<query_codes, query_result>>

-----------------------------------------------------------------------------
(* Bounds of the explored inputs.                                          *)

MaxLines == 2      \* lines of a generated generic table file
MaxTextLen == 4    \* characters of a generated user text
MaxId == 1         \* directly queried IDs are 0..MaxId

-----------------------------------------------------------------------------
(* Python string primitives.                                               *)

Digits == {"0", "1", "2", "3", "4", "5", "6", "7", "8", "9"}
HexDigits == Digits \cup {"a", "b", "c", "d", "e", "f", "A", "B", "C", "D", "E", "F"}
Whitespace == {" ", "\t", "\r", "\n"}
CJK == {"dan", "xia", "qiang", "kou", "wo", "ba", "miao", "ju", "zhun", "jing", "ji",
        "bu", "jin", "se", "tu", "zhuang", "di", "tie", "wei", "zhao", "dao"}

SetMin(S) == CHOOSE x \in S : \A y \in S : x <= y
SetMax(S) == CHOOSE x \in S : \A y \in S : x >= y

\* str.strip()
PyStrip(s) ==
    LET keep == {i \in 1..Len(s) : s[i] \notin Whitespace}
    IN  IF keep = {} THEN <<>> ELSE SubSeq(s, SetMin(keep), SetMax(keep))

\* `k in s` for strings
PyContains(s, k) ==
    \E i \in 1..(Len(s) - Len(k) + 1) : SubSeq(s, i, i + Len(k) - 1) = k

\* str.split(sep), sep non-empty: leftmost non-overlapping occurrences
RECURSIVE PySplit(_, _)
PySplit(s, sep) ==
    LET hits == {i \in 1..(Len(s) - Len(sep) + 1) : SubSeq(s, i, i + Len(sep) - 1) = sep}
    IN  IF hits = {} THEN <<s>>
        ELSE LET i == SetMin(hits)
             IN  <<SubSeq(s, 1, i - 1)>> \o PySplit(SubSeq(s, i + Len(sep), Len(s)), sep)

\* sep.join(parts)
RECURSIVE PyJoin(_, _)
PyJoin(sep, parts) ==
    IF parts = <<>> THEN <<>>
    ELSE IF Len(parts) = 1 THEN parts[1]
    ELSE parts[1] \o sep \o PyJoin(sep, Tail(parts))

DigitVal(c) ==
    CASE c = "0" -> 0 [] c = "1" -> 1 [] c = "2" -> 2 [] c = "3" -> 3 [] c = "4" -> 4
      [] c = "5" -> 5 [] c = "6" -> 6 [] c = "7" -> 7 [] c = "8" -> 8 [] c = "9" -> 9

DigitChar(d) ==
    CASE d = 0 -> "0" [] d = 1 -> "1" [] d = 2 -> "2" [] d = 3 -> "3" [] d = 4 -> "4"
      [] d = 5 -> "5" [] d = 6 -> "6" [] d = 7 -> "7" [] d = 8 -> "8" [] d = 9 -> "9"

\* int(s) succeeds: optional sign, then digits with single underscores between
\* digits (s is already stripped where the code calls int).
PyIntOk(s) ==
    LET body == IF s # <<>> /\ s[1] \in {"+", "-"} THEN Tail(s) ELSE s
    IN  /\ body # <<>>
        /\ \A i \in 1..Len(body) : body[i] \in Digits \cup {"_"}
        /\ body[1] \in Digits
        /\ body[Len(body)] \in Digits
        /\ \A i \in 1..(Len(body) - 1) : ~(body[i] = "_" /\ body[i + 1] = "_")

RECURSIVE DigitsValue(_, _)
DigitsValue(body, acc) ==
    IF body = <<>> THEN acc
    ELSE IF body[1] = "_" THEN DigitsValue(Tail(body), acc)
    ELSE DigitsValue(Tail(body), 10 * acc + DigitVal(body[1]))

\* int(s), for s with PyIntOk(s)
PyInt(s) ==
    IF s[1] = "-" THEN 0 - DigitsValue(Tail(s), 0)
    ELSE IF s[1] = "+" THEN DigitsValue(Tail(s), 0)
    ELSE DigitsValue(s, 0)

RECURSIVE NatStr(_)
NatStr(n) ==
    IF n < 10 THEN <<DigitChar(n)>> ELSE NatStr(n \div 10) \o <<DigitChar(n % 10)>>

\* str(n)
PyStr(n) == IF n < 0 THEN <<"-">> \o NatStr(0 - n) ELSE NatStr(n)

EmptyDict == [k \in {} |-> 0]

\* d after d.update(t)
DictUpdate(d, t) ==
    [k \in (DOMAIN d) \cup (DOMAIN t) |-> IF k \in DOMAIN t THEN t[k] ELSE d[k]]

\* d after d[key] = value
DictSet(d, key, value) ==
    [k \in (DOMAIN d) \cup {key} |-> IF k = key THEN value ELSE d[k]]

-----------------------------------------------------------------------------
(* parse_generic_code_table                                                *)

FieldSep == <<" ", "-", "-", " ">>

MagazineKeywords == {<<"dan", "xia">>}
MuzzleKeywords == {<<"qiang", "kou">>}
GripKeywords == {<<"wo", "ba">>}
SightKeywords == {<<"miao", "ju">>, <<"miao", "zhun", "jing">>, <<"ji", "miao">>}

AnyIn(name, keywords) == \E k \in keywords : PyContains(name, k)

\* the if/elif chain on the name; the values are the five type_hint labels
TypeHint(name) ==
    IF AnyIn(name, MagazineKeywords) THEN "danxia"
    ELSE IF AnyIn(name, MuzzleKeywords) THEN "qiangkou"
    ELSE IF AnyIn(name, GripKeywords) THEN "woba"
    ELSE IF AnyIn(name, SightKeywords) THEN "jimiao"
    ELSE "zhujian"

\* Python's None for the parent field; a present parent id is the set {id}
None == {}

\* parts = [p.strip() for p in line.split(" -- ")]
GenericParts(line) ==
    LET raw == PySplit(line, FieldSep)
    IN  [i \in 1..Len(raw) |-> PyStrip(raw[i])]

EmptyTables == [parsed_items |-> EmptyDict, main_weapons |-> EmptyDict,
                sub_to_main |-> EmptyDict]

\* a parser that keys the record by field 0
GenericKeyField0(id1, id2) == id1

\* the key a record is stored under
GenericKey(id1, id2) == id2

\* the parent stored with a record
GenericParent(id1, type_hint) == IF type_hint # "zhujian" THEN {id1} ELSE None

\* the three stores of one well-formed line
StoreGeneric(acc, id1, id2, name) ==
    LET type_hint == TypeHint(name)
        parent_id == GenericParent(id1, type_hint)
        key       == GenericKey(id1, id2)
    IN  [parsed_items |-> DictSet(acc.parsed_items, key,
                                  [name |-> name, type |-> type_hint, parent |-> parent_id]),
         main_weapons |-> IF type_hint = "zhujian"
                          THEN DictSet(acc.main_weapons, key, name)
                          ELSE acc.main_weapons,
         sub_to_main  |-> IF type_hint = "zhujian"
                          THEN acc.sub_to_main
                          ELSE DictSet(acc.sub_to_main, key, parent_id)]

\* a parser that asks for three fields only
ParseGenericLineThreeFields(acc, rawline) ==
    LET line == PyStrip(rawline)
    IN  IF line = <<>> THEN acc
        ELSE LET parts == GenericParts(line)
             IN  IF Len(parts) < 3 THEN acc
                 ELSE IF ~(PyIntOk(parts[1]) /\ PyIntOk(parts[2])) THEN acc
                 ELSE StoreGeneric(acc, PyInt(parts[1]), PyInt(parts[2]), parts[3])

\* one iteration of the loop over the file's lines
ParseGenericLine(acc, rawline) ==
    LET line == PyStrip(rawline)
    IN  IF line = <<>> THEN acc
        ELSE LET parts == GenericParts(line)
             IN  IF Len(parts) < 4 THEN acc
                 ELSE IF ~(PyIntOk(parts[1]) /\ PyIntOk(parts[2])) THEN acc  \* ValueError
                 ELSE StoreGeneric(acc, PyInt(parts[1]), PyInt(parts[2]), parts[3])

RECURSIVE ParseGenericLines(_, _)
ParseGenericLines(acc, lines) ==
    IF lines = <<>> THEN acc
    ELSE ParseGenericLines(ParseGenericLine(acc, lines[1]), Tail(lines))

-----------------------------------------------------------------------------
(* Files and open(file_path, 'r', encoding=...)                            *)

NoFile == [present |-> FALSE, enc |-> "utf-8", lines |-> <<>>]
File(enc, lines) == [present |-> TRUE, enc |-> enc, lines |-> lines]

IsAscii(line) == \A i \in 1..Len(line) : line[i] \notin CJK
NonAsciiLines(file) == {i \in 1..Len(file.lines) : ~IsAscii(file.lines[i])}

\* A CJK character read under the wrong encoding, where that decodes at all
Mojibake(lines) ==
    [i \in 1..Len(lines) |->
        [j \in 1..Len(lines[i]) |-> IF lines[i][j] \in CJK THEN "?" ELSE lines[i][j]]]

\* What iterating the opened file yields: the lines read and the exception that
\* ends the iteration. ASCII bytes decode alike under both encodings. The
\* bytes of a GBK file with CJK text are not valid UTF-8: the decoder raises
\* when it reaches the buffer holding them, after any number of the earlier
\* lines were yielded. UTF-8 bytes read as GBK raise likewise or decode to
\* other characters.
ReadOutcomes(file, encoding) ==
    IF ~file.present THEN {[exc |-> "FileNotFoundError", lines |-> <<>>]}
    ELSE IF file.enc = encoding \/ NonAsciiLines(file) = {}
         THEN {[exc |-> "none", lines |-> file.lines]}
    ELSE {[exc |-> "UnicodeDecodeError", lines |-> SubSeq(file.lines, 1, k)] :
              k \in 0..(SetMin(NonAsciiLines(file)) - 1)}
         \cup (IF encoding = "gbk"
               THEN {[exc |-> "none", lines |-> Mojibake(file.lines)]}
               ELSE {})

\* The possible returns of parse_generic_code_table(file_path, encoding). Both
\* except clauses of the function catch inside it, so whatever ended the
\* read, the function returns what it parsed so far and raises nothing.
parse_generic_code_table(file, encoding) ==
    {[raised |-> "none", value |-> ParseGenericLines(EmptyTables, r.lines)] :
        r \in ReadOutcomes(file, encoding)}

-----------------------------------------------------------------------------
(* parse_subway_code_table_file                                            *)

\* the end of the longest run of characters of `class` that starts at i
\* (i - 1 when s[i] is not of the class)
RECURSIVE RunEnd(_, _, _)
RunEnd(s, i, class) ==
    IF i <= Len(s) /\ s[i] \in class THEN RunEnd(s, i + 1, class) ELSE i - 1

\* the end of the longest run of characters other than `stop` that starts at i
RECURSIVE RunEndUntil(_, _, _)
RunEndUntil(s, i, stop) ==
    IF i <= Len(s) /\ s[i] # stop THEN RunEndUntil(s, i + 1, stop) ELSE i - 1

LitAt(s, i, lit) == i + Len(lit) - 1 <= Len(s) /\ SubSeq(s, i, i + Len(lit) - 1) = lit

\* subway_pattern.match(line):
\*   \{(\d+)\}--\{\d+\}--\[([^\]]+)\]--\[(0x[0-9a-fA-F]+)\]
\* anchored at the start only. Each + is followed by a character outside its
\* class, so the greedy runs are the only way to match.
SubwayMatch(line) ==
    LET a1 == 2
        a2 == RunEnd(line, a1, Digits)                 \* group 1 = a1..a2
        b1 == a2 + 5
        b2 == RunEnd(line, b1, Digits)                 \* the discarded number
        c1 == b2 + 5
        c2 == RunEndUntil(line, c1, "]")               \* group 2 = c1..c2
        d1 == c2 + 5
        d2 == RunEnd(line, d1 + 2, HexDigits)          \* group 3 = d1..d2
        ok == /\ LitAt(line, 1, <<"{">>)
              /\ a2 >= a1
              /\ LitAt(line, a2 + 1, <<"}", "-", "-", "{">>)
              /\ b2 >= b1
              /\ LitAt(line, b2 + 1, <<"}", "-", "-", "[">>)
              /\ c2 >= c1
              /\ LitAt(line, c2 + 1, <<"]", "-", "-", "[">>)
              /\ LitAt(line, d1, <<"0", "x">>)
              /\ d2 >= d1 + 2
              /\ LitAt(line, d2 + 1, <<"]">>)
    IN  IF ok
        THEN [matched |-> TRUE, id |-> SubSeq(line, a1, a2), name |-> SubSeq(line, c1, c2),
              hex_code |-> SubSeq(line, d1, d2)]
        ELSE [matched |-> FALSE, id |-> <<>>, name |-> <<>>, hex_code |-> <<>>]

\* one iteration of the loop over the file's lines
ParseSubwayLine(acc, rawline) ==
    LET line == PyStrip(rawline)
        m    == SubwayMatch(line)
    IN  IF line = <<>> THEN acc
        ELSE IF ~m.matched THEN acc
        ELSE DictSet(acc, PyInt(m.id), [name |-> m.name, hex_code |-> m.hex_code])

RECURSIVE ParseSubwayLines(_, _)
ParseSubwayLines(acc, lines) ==
    IF lines = <<>> THEN acc
    ELSE ParseSubwayLines(ParseSubwayLine(acc, lines[1]), Tail(lines))

\* The possible returns of parse_subway_code_table_file(file_path, encoding);
\* as in the generic parser, every exception is caught inside.
parse_subway_code_table_file(file, encoding) ==
    {[raised |-> "none", value |-> ParseSubwayLines(EmptyDict, r.lines)] :
        r \in ReadOutcomes(file, encoding)}

-----------------------------------------------------------------------------
(* load_code_table                                                         *)

\* a loader that does not clear: the update calls merge into the old dicts
StaleTables == [parsed_items |-> item_dict, main_weapons |-> main_weapon_dict,
                sub_to_main |-> sub_to_main_dict]

\* the dicts are rebound to empty dicts before anything is read
ClearedTables == EmptyTables
ClearedSubway == EmptyDict

\* try: parse as utf-8 and update / except UnicodeDecodeError: parse as gbk and
\* update. The except branch runs only when the parser raises.
LoadGeneric(old, file) ==
    UNION { IF p.raised = "UnicodeDecodeError"
            THEN {[parsed_items |-> DictUpdate(old.parsed_items, q.value.parsed_items),
                   main_weapons |-> DictUpdate(old.main_weapons, q.value.main_weapons),
                   sub_to_main  |-> DictUpdate(old.sub_to_main, q.value.sub_to_main)] :
                     q \in parse_generic_code_table(file, "gbk")}
            ELSE {[parsed_items |-> DictUpdate(old.parsed_items, p.value.parsed_items),
                   main_weapons |-> DictUpdate(old.main_weapons, p.value.main_weapons),
                   sub_to_main  |-> DictUpdate(old.sub_to_main, p.value.sub_to_main)]} :
            p \in parse_generic_code_table(file, "utf-8") }

LoadSubway(old, file) ==
    UNION { IF p.raised = "UnicodeDecodeError"
            THEN {DictUpdate(old, q.value) : q \in parse_subway_code_table_file(file, "gbk")}
            ELSE {DictUpdate(old, p.value)} :
            p \in parse_subway_code_table_file(file, "utf-8") }

load_code_table ==
    /\ \E g \in LoadGeneric(ClearedTables, generic_file) :
       \E s \in LoadSubway(ClearedSubway, subway_file) :
           /\ item_dict' = g.parsed_items
           /\ main_weapon_dict' = g.main_weapons
           /\ sub_to_main_dict' = g.sub_to_main
           /\ subway_item_dict' = s
    /\ op' = "load"
    /\ UNCHANGED <<files, request, query>>

-----------------------------------------------------------------------------
(* query_item                                                              *)

CommaSpace == <<",", " ">>
NotFoundPrefix == <<"wei", "zhao", "dao", "I", "D", " ">>

\* f"{name} (di-tie, {hex_code})"
SubwayDisplay(info) ==
    info.name \o <<" ", "(", "di", "tie", ",", " ">> \o info.hex_code \o <<")">>

\* a lookup that consults the subway table first
QueryOneSubwayFirst(idict, sdict, code) ==
    IF code \in DOMAIN sdict THEN SubwayDisplay(sdict[code])
    ELSE IF code \in DOMAIN idict THEN idict[code].name
    ELSE NotFoundPrefix \o PyStr(code)

\* the string appended to results for one code; a stored record is a
\* non-empty dict, so `if item_info` is a test of presence
QueryOne(idict, sdict, code) ==
    IF code \in DOMAIN idict THEN idict[code].name
    ELSE IF code \in DOMAIN sdict THEN SubwayDisplay(sdict[code])
    ELSE NotFoundPrefix \o PyStr(code)

QueryItem(idict, sdict, codes) ==
    PyJoin(CommaSpace, [i \in 1..Len(codes) |-> QueryOne(idict, sdict, codes[i])])

\* the module is imported, and the tables loaded, before anything is served
Serving == op # "start"

query_item(codes) ==
    /\ Serving
    /\ query_codes' = codes
    /\ query_result' = QueryItem(item_dict, subway_item_dict, codes)
    /\ op' = "query"
    /\ UNCHANGED <<files, dicts, request>>

-----------------------------------------------------------------------------
(* index                                                                   *)

Newline == <<"\n">>
TablesNotLoadedMessage == <<"tables-not-loaded">>   \* the fixed error text

\* re.match(r"^\s*(\d+(?:\s*,\s*\d+)*)", s): the end of group 1 given that the
\* match so far ends at e. One more repetition is whitespace, a comma,
\* whitespace and a digit run, each taken greedily.
RECURSIVE IdRunEnd(_, _)
IdRunEnd(s, e) ==
    LET comma == RunEnd(s, e + 1, Whitespace) + 1
        d1    == RunEnd(s, comma + 1, Whitespace) + 1
        d2    == RunEnd(s, d1, Digits)
    IN  IF comma <= Len(s) /\ s[comma] = "," /\ d2 >= d1 THEN IdRunEnd(s, d2) ELSE e

\* group 1 of the match, or <<>> when there is no match
LeadingIds(s) ==
    LET d1 == RunEnd(s, 1, Whitespace) + 1
        d2 == RunEnd(s, d1, Digits)
    IN  IF d2 >= d1 THEN SubSeq(s, d1, IdRunEnd(s, d2)) ELSE <<>>

\* re.findall(r"\d+", s)
RECURSIVE FindAllDigits(_)
FindAllDigits(s) ==
    LET starts == {i \in 1..Len(s) : s[i] \in Digits}
    IN  IF starts = {} THEN <<>>
        ELSE LET d1 == SetMin(starts)
                 d2 == RunEnd(s, d1, Digits)
             IN  <<SubSeq(s, d1, d2)>> \o FindAllDigits(SubSeq(s, d2 + 1, Len(s)))

\* f"{id_string} #{comment}" if comment else id_string
OutputLine(id_string, comment) ==
    IF comment # <<>> THEN id_string \o <<" ", "#">> \o comment ELSE id_string

\* an annotator whose blank lines `continue` without appending
AnnotateLineSkipBlank(idict, sdict, line) ==
    LET stripped_line == PyStrip(line)
        numbers_str   == LeadingIds(stripped_line)
        found         == FindAllDigits(numbers_str)
        numbers       == [i \in 1..Len(found) |-> PyInt(found[i])]
        id_string     == PyJoin(CommaSpace, [i \in 1..Len(numbers) |-> PyStr(numbers[i])])
    IN  IF stripped_line = <<>> THEN <<>>
        ELSE IF numbers_str = <<>> THEN <<stripped_line>>
        ELSE IF numbers = <<>> THEN <<stripped_line>>
        ELSE <<PyStrip(OutputLine(id_string, QueryItem(idict, sdict, numbers)))>>

\* an annotator that collects the numbers of the whole line, not of group 1
AnnotateLineAllNumbers(idict, sdict, line) ==
    LET stripped_line == PyStrip(line)
        numbers_str   == LeadingIds(stripped_line)
        found         == FindAllDigits(stripped_line)
        numbers       == [i \in 1..Len(found) |-> PyInt(found[i])]
        id_string     == PyJoin(CommaSpace, [i \in 1..Len(numbers) |-> PyStr(numbers[i])])
    IN  IF stripped_line = <<>> THEN << <<>> >>
        ELSE IF numbers_str = <<>> THEN <<stripped_line>>
        ELSE IF numbers = <<>> THEN <<stripped_line>>
        ELSE <<PyStrip(OutputLine(id_string, QueryItem(idict, sdict, numbers)))>>

\* the body of the loop over lines: what it appends to results
AnnotateLine(idict, sdict, line) ==
    LET stripped_line == PyStrip(line)
        numbers_str   == LeadingIds(stripped_line)
        found         == FindAllDigits(numbers_str)
        numbers       == [i \in 1..Len(found) |-> PyInt(found[i])]
        id_string     == PyJoin(CommaSpace, [i \in 1..Len(numbers) |-> PyStr(numbers[i])])
    IN  IF stripped_line = <<>> THEN << <<>> >>
        ELSE IF numbers_str = <<>> THEN <<stripped_line>>
        ELSE IF numbers = <<>> THEN <<stripped_line>>
        ELSE <<PyStrip(OutputLine(id_string, QueryItem(idict, sdict, numbers)))>>

RECURSIVE AnnotateLines(_, _, _)
AnnotateLines(idict, sdict, lines) ==
    IF lines = <<>> THEN <<>>
    ELSE AnnotateLine(idict, sdict, lines[1]) \o AnnotateLines(idict, sdict, Tail(lines))

\* final_text of a POST that is served
Annotate(idict, sdict, text) ==
    PyJoin(Newline, AnnotateLines(idict, sdict, PySplit(text, Newline)))

\* a guard that looks at the generic table alone
TablesLoadedGenericOnly(idict, sdict) == DOMAIN idict # {}

\* `if not item_dict and not subway_item_dict` is the refusal; this is its negation
TablesLoaded(idict, sdict) == ~(DOMAIN idict = {} /\ DOMAIN sdict = {})

\* index() for a POST carrying user_input = text
IndexPost(text) ==
    /\ Serving
    /\ user_input' = text
    /\ IF TablesLoaded(item_dict, subway_item_dict)
       THEN /\ final_text' = Annotate(item_dict, subway_item_dict, text)
            /\ error_message' = <<>>
       ELSE /\ final_text' = <<>>
            /\ error_message' = TablesNotLoadedMessage
    /\ op' = "post"
    /\ UNCHANGED <<files, dicts, query>>

\* index() for a GET
IndexGet ==
    /\ Serving
    /\ final_text' = <<>>
    /\ error_message' = <<>>
    /\ op' = "get"
    /\ UNCHANGED <<files, dicts, query, user_input>>

-----------------------------------------------------------------------------
(* Inputs                                                                  *)

SeqsUpTo(S, n) == UNION {[1..k -> S] : k \in 0..n}

GenericLine3(f0, f1, name) == f0 \o FieldSep \o f1 \o FieldSep \o name
GenericLine4(f0, f1, name) == GenericLine3(f0, f1, name) \o FieldSep \o <<"x">>

\* names of every class, of two classes at once, and the empty name
GenNames ==
    { <<"A", "K">>, <<"dan", "xia">>, <<"qiang", "kou">>, <<"wo", "ba">>,
      <<"miao", "ju">>, <<"miao", "zhun", "jing">>, <<"ji", "miao">>,
      <<"qiang", "kou", "dan", "xia">>, <<"ji", "miao", "wo", "ba">>, <<>> }

GenLines ==
    {GenericLine4(<<"2">>, <<"1">>, n) : n \in GenNames \ {<<"wo", "ba">>}}
    \cup { GenericLine4(<<"-", "1">>, <<"0", "1">>, <<"wo", "ba">>),
           GenericLine4(<<"1">>, <<"2">>, <<"A", "K">>),
           GenericLine3(<<"2">>, <<"1">>, <<"A", "K">>),
           GenericLine4(<<"y">>, <<"1">>, <<"A", "K">>),
           <<" ">> }

SubLines ==
    { <<"{", "1", "}", "-", "-", "{", "0", "}", "-", "-", "[", "jin", "]", "-", "-", "[", "0", "x", "F", "]">>,
      <<" ", "{", "2", "}", "-", "-", "{", "9", "}", "-", "-", "[", "se", "]", "-", "-", "[", "0", "x", "1", "a", "]", " ", "z">>,
      <<"{", "1", "}", "-", "-", "[", "tu", "]", "-", "-", "[", "0", "x", "F", "]">> }

\* no subway table; the first line; the malformed line; the two well-formed lines
SubwayTableFiles ==
    {NoFile}
    \cup {File("utf-8", <<l>>) : l \in {t \in SubLines : t[1] = "{"}}
    \cup {File("utf-8", <<l, m>>) :
              l \in {t \in SubLines : SubwayMatch(PyStrip(t)).matched /\ t[1] = "{"},
              m \in {t \in SubLines : SubwayMatch(PyStrip(t)).matched /\ t[1] # "{"}}

\* the scenario of the specification: its two table files and its text
ScenarioGeneric3 ==
    File("utf-8", << GenericLine3(<<"1">>, <<"1", "0", "1">>, <<"A", "K", "4", "7", "bu", "qiang">>),
                     GenericLine3(<<"1", "0", "1">>, <<"2", "0", "1">>, <<"A", "K", "4", "7", "dan", "xia">>) >>)
ScenarioGeneric4 ==
    File("utf-8", << GenericLine4(<<"1">>, <<"1", "0", "1">>, <<"A", "K", "4", "7", "bu", "qiang">>),
                     GenericLine4(<<"1", "0", "1">>, <<"2", "0", "1">>, <<"A", "K", "4", "7", "dan", "xia">>) >>)
ScenarioSubway ==
    File("utf-8", << <<"{", "5", "0", "1", "}", "-", "-", "{", "0", "}", "-", "-", "[", "jin", "se", "tu", "zhuang", "]", "-", "-", "[", "0", "x", "F", "F", "D", "7", "0", "0", "]">> >>)
ScenarioText ==
    <<"1", "0", "1", "\n", "2", "0", "1", "\n", "5", "0", "1", "\n", "9", "9", "9", "\n", "h", "e", "l", "l", "o", " ", "w", "o", "r", "l", "d">>

\* the same tables saved as GBK, and a GBK table whose first line is ASCII
GbkGeneric == File("gbk", ScenarioGeneric4.lines)
GbkGenericAsciiFirst ==
    File("gbk", << GenericLine4(<<"1">>, <<"7">>, <<"A", "K">>) >> \o ScenarioGeneric4.lines)
GbkSubway == File("gbk", ScenarioSubway.lines)

GenericFileSet ==
    {NoFile, ScenarioGeneric3, ScenarioGeneric4, GbkGeneric, GbkGenericAsciiFirst}
SubwayFileSet == {NoFile, ScenarioSubway, GbkSubway}
PostTexts == {ScenarioText, <<>>, <<" ", " ", "7", " ", ",", " ", " ", "1", "0", "1", " ", " ", " ", "s", "o", "m", "e", " ", "n", "o", "t", "e", "\n", "\n", "0", "0", "7">>}
QueryIds == {7, 101, 201, 501, 999}

\* the table files of the annotator runs: none; both; the subway table alone
AnnotFileConfigs ==
    { <<NoFile, NoFile>>,
      <<File("utf-8", << GenericLine4(<<"1">>, <<"1">>, <<"A", "K">>),
                         GenericLine4(<<"1">>, <<"0">>, <<>>) >>),
        File("utf-8", << <<"{", "1", "0", "}", "-", "-", "{", "0", "}", "-", "-", "[", "jin", "]", "-", "-", "[", "0", "x", "F", "]">> >>)>>,
      <<NoFile, File("utf-8", << <<"{", "1", "0", "}", "-", "-", "{", "0", "}", "-", "-", "[", "jin", "]", "-", "-", "[", "0", "x", "F", "]">> >>)>> }

TextAlphabet == {"0", "1", ",", " ", "\n", "a", "#"}

-----------------------------------------------------------------------------
(* Specifications                                                          *)

\* The module body up to the call of load_code_table(): the four dicts are
\* bound to empty dicts, nothing was served yet.
Start ==
    /\ item_dict = EmptyDict
    /\ main_weapon_dict = EmptyDict
    /\ sub_to_main_dict = EmptyDict
    /\ subway_item_dict = EmptyDict
    /\ final_text = <<>>
    /\ error_message = <<>>
    /\ query_codes = <<>>
    /\ query_result = <<>>
    /\ op = "start"

\* the deployment replaces a table file
ReplaceGenericFile(f) ==
    /\ generic_file' = f
    /\ op' = "replace"
    /\ UNCHANGED <<subway_file, dicts, request, query>>

ReplaceSubwayFile(f) ==
    /\ subway_file' = f
    /\ op' = "replace"
    /\ UNCHANGED <<generic_file, dicts, request, query>>

\* The service over its life: table files that come, go and change encoding,
\* loads, direct queries and requests.
Init ==
    /\ generic_file \in GenericFileSet
    /\ subway_file \in SubwayFileSet
    /\ user_input = <<>>
    /\ Start

Next ==
    \/ \E f \in GenericFileSet : ReplaceGenericFile(f)
    \/ \E f \in SubwayFileSet : ReplaceSubwayFile(f)
    \/ load_code_table
    \/ \E id \in QueryIds : query_item(<<id>>)
    \/ \E text \in PostTexts : IndexPost(text)
    \/ IndexGet

Spec == Init /\ [][Next]_vars

\* The parsers and the lookup over every pair of table files of up to
\* MaxLines generic lines.
InitTables ==
    /\ generic_file \in {NoFile} \cup {File("utf-8", l) : l \in SeqsUpTo(GenLines, MaxLines)}
    /\ subway_file \in SubwayTableFiles
    /\ user_input = <<>>
    /\ Start

NextTables ==
    \/ load_code_table
    \/ \E id \in 0..MaxId : query_item(<<id>>)

SpecTables == InitTables /\ [][NextTables]_vars

\* The annotator over every text of up to MaxTextLen characters.
InitAnnotate ==
    /\ \E c \in AnnotFileConfigs : generic_file = c[1] /\ subway_file = c[2]
    /\ user_input \in SeqsUpTo(TextAlphabet, MaxTextLen)
    /\ Start

NextAnnotate ==
    \/ load_code_table
    \/ IndexPost(user_input)
    \/ IndexGet

SpecAnnotate == InitAnnotate /\ [][NextAnnotate]_vars

-----------------------------------------------------------------------------
(* Claims                                                                  *)

SingleQuery == op = "query" /\ Len(query_codes) = 1

\* C1: a single-ID query_item never returns the empty string: the result is
\* non-empty and is the generic name, the subway-formatted name or the
\* not-found text with the ID.
C1_ResolveNeverEmpty ==
    SingleQuery =>
        LET code == query_codes[1]
        IN  /\ query_result # <<>>
            /\ \/ code \in DOMAIN item_dict /\ query_result = item_dict[code].name
               \/ code \in DOMAIN subway_item_dict
                  /\ query_result = SubwayDisplay(subway_item_dict[code])
               \/ query_result = NotFoundPrefix \o PyStr(code)

ScenarioExpected ==
    <<"1", "0", "1", " ", "#", "A", "K", "4", "7", "bu", "qiang", "\n", "2", "0", "1",
      " ", "#", "A", "K", "4", "7", "dan", "xia", "\n", "5", "0", "1", " ", "#",
      "jin", "se", "tu", "zhuang", " ", "(", "di", "tie", ",", " ", "0", "x", "F",
      "F", "D", "7", "0", "0", ")", "\n", "9", "9", "9", " ", "#", "wei", "zhao",
      "dao", "I", "D", " ", "9", "9", "9", "\n", "h", "e", "l", "l", "o", " ", "w",
      "o", "r", "l", "d">>

ScenarioSkipped ==
    <<"1", "0", "1", " ", "#", "wei", "zhao", "dao", "I", "D", " ", "1", "0", "1",
      "\n", "2", "0", "1", " ", "#", "wei", "zhao", "dao", "I", "D", " ", "2", "0",
      "1", "\n", "5", "0", "1", " ", "#", "jin", "se", "tu", "zhuang", " ", "(",
      "di", "tie", ",", " ", "0", "x", "F", "F", "D", "7", "0", "0", ")", "\n",
      "9", "9", "9", " ", "#", "wei", "zhao", "dao", "I", "D", " ", "9", "9", "9",
      "\n", "h", "e", "l", "l", "o", " ", "w", "o", "r", "l", "d">>

ScenarioRequest ==
    /\ op = "load"
    /\ subway_file = ScenarioSubway
    /\ op' = "post"
    /\ user_input' = ScenarioText

\* C2 as stated: loading the scenario tables, whose generic lines have three
\* fields, and annotating the scenario text gives the five expected lines.
C2_ScenarioAsStated ==
    [][(ScenarioRequest /\ generic_file = ScenarioGeneric3)
          => final_text' = ScenarioExpected]_vars

\* C2 amended: the generic lines as given have three fields and are skipped,
\* so 101 and 201 get the not-found text; with a fourth field on each generic
\* line the five expected lines are produced.
C2_ScenarioAmended ==
    [][ScenarioRequest =>
          /\ generic_file = ScenarioGeneric3 => final_text' = ScenarioSkipped
          /\ generic_file = ScenarioGeneric4 => final_text' = ScenarioExpected]_vars

C2_Witness ==
    /\ op = "post"
    /\ user_input = ScenarioText
    /\ generic_file = ScenarioGeneric3
    /\ subway_file = ScenarioSubway
    /\ DOMAIN item_dict = {}
    /\ DOMAIN subway_item_dict = {501}
    /\ final_text = ScenarioSkipped

GbkOnly(file) == file.present /\ file.enc = "gbk" /\ NonAsciiLines(file) # {}

\* C3: after a load, the records of a table file that is valid GBK but not
\* valid UTF-8 are in the lookup index (the loader retried it as GBK).
C3_GbkFallbackLoadsRecords ==
    op = "load" =>
        /\ GbkOnly(generic_file) =>
              item_dict = ParseGenericLines(EmptyTables, generic_file.lines).parsed_items
        /\ GbkOnly(subway_file) =>
              subway_item_dict = ParseSubwayLines(EmptyDict, subway_file.lines)

\* the entries one line of the file gives each map
FromGenericLine(i) == ParseGenericLine(EmptyTables, generic_file.lines[i])
FromSubwayLine(i) == ParseSubwayLine(EmptyDict, subway_file.lines[i])
EntryOf(d, k, line_dict) == k \in DOMAIN line_dict /\ line_dict[k] = d[k]

\* C4: after every load each entry of the four maps is an entry parsed from a
\* line of the file as it is at that load, and with both files missing all
\* four maps are empty, whatever an earlier load had put there.
C4_FullReplace ==
    op = "load" =>
        /\ \A k \in DOMAIN item_dict : \E i \in 1..Len(generic_file.lines) :
               EntryOf(item_dict, k, FromGenericLine(i).parsed_items)
        /\ \A k \in DOMAIN main_weapon_dict : \E i \in 1..Len(generic_file.lines) :
               EntryOf(main_weapon_dict, k, FromGenericLine(i).main_weapons)
        /\ \A k \in DOMAIN sub_to_main_dict : \E i \in 1..Len(generic_file.lines) :
               EntryOf(sub_to_main_dict, k, FromGenericLine(i).sub_to_main)
        /\ \A k \in DOMAIN subway_item_dict : \E i \in 1..Len(subway_file.lines) :
               EntryOf(subway_item_dict, k, FromSubwayLine(i))
        /\ (~generic_file.present /\ ~subway_file.present) =>
               /\ item_dict = EmptyDict
               /\ main_weapon_dict = EmptyDict
               /\ sub_to_main_dict = EmptyDict
               /\ subway_item_dict = EmptyDict

\* a load with both files gone, after a load that had answered a query with a
\* generic name
C4_Witness ==
    /\ op = "load"
    /\ ~generic_file.present
    /\ ~subway_file.present
    /\ query_codes = <<101>>
    /\ query_result = <<"A", "K", "4", "7", "bu", "qiang">>
    /\ item_dict = EmptyDict
    /\ subway_item_dict = EmptyDict

Served == op = "post" /\ error_message = <<>>

\* C5: a served annotation has as many output lines as the text has input
\* lines, blank lines included.
C5_LineCountPreserved ==
    Served => Len(PySplit(final_text, Newline)) = Len(PySplit(user_input, Newline))

C5_Witness ==
    /\ Served
    /\ user_input = <<"1", "\n", "\n", "a">>
    /\ Len(PySplit(final_text, Newline)) = 3

BothEmpty == DOMAIN item_dict = {} /\ DOMAIN subway_item_dict = {}

\* C6: a POST is refused, with the tables-unavailable message and no output
\* text, exactly when both the generic and the subway map are empty;
\* otherwise there is no error and every non-blank input line has its
\* non-blank output line.
C6_RefusedIffBothEmpty ==
    op = "post" =>
        IF BothEmpty
        THEN error_message = TablesNotLoadedMessage /\ final_text = <<>>
        ELSE /\ error_message = <<>>
             /\ LET inl  == PySplit(user_input, Newline)
                    outl == PySplit(final_text, Newline)
                IN  /\ Len(outl) = Len(inl)
                    /\ \A i \in 1..Len(inl) : PyStrip(inl[i]) # <<>> => outl[i] # <<>>

C6_Witness ==
    /\ op = "post"
    /\ BothEmpty
    /\ user_input = <<"1", "\n", "a">>
    /\ error_message = TablesNotLoadedMessage
    /\ final_text = <<>>

\* C7: with the index unchanged, annotating the output of a served annotation
\* gives that output again.
C7_AnnotateIdempotent ==
    Served => Annotate(item_dict, subway_item_dict, final_text) = final_text

\* a leading zero and trailing text
C7_Witness ==
    /\ Served
    /\ user_input = <<"0", "1", " ", "a">>
    /\ final_text = <<"1", " ", "#", "A", "K">>

\* C8: an ID of the generic map resolves to its generic name, also when the
\* subway map has it too; an ID of the subway map alone resolves to
\* "<name> (di-tie, <hex>)"; an ID of neither resolves to the not-found text.
C8_GenericPrecedence ==
    SingleQuery =>
        LET code == query_codes[1]
        IN  IF code \in DOMAIN item_dict
            THEN query_result = item_dict[code].name
            ELSE IF code \in DOMAIN subway_item_dict
            THEN query_result = subway_item_dict[code].name
                                \o <<" ", "(", "di", "tie", ",", " ">>
                                \o subway_item_dict[code].hex_code \o <<")">>
            ELSE query_result = <<"wei", "zhao", "dao", "I", "D", " ">> \o PyStr(code)

C8_Witness ==
    /\ SingleQuery
    /\ query_codes[1] \in DOMAIN item_dict
    /\ query_codes[1] \in DOMAIN subway_item_dict
    /\ item_dict[query_codes[1]].name = <<"A", "K">>
    /\ query_result = <<"A", "K">>

\* the fields of a generic line, and whether it has four of them with
\* integers in the first two
FieldsOf(rawline) == GenericParts(PyStrip(rawline))
WellFormed(rawline) ==
    /\ PyStrip(rawline) # <<>>
    /\ Len(FieldsOf(rawline)) >= 4
    /\ PyIntOk(FieldsOf(rawline)[1])
    /\ PyIntOk(FieldsOf(rawline)[2])

\* the class of a name: the first marker found, magazine before muzzle before
\* grip before sight, else main weapon
ClassOf(name) ==
    CASE PyContains(name, <<"dan", "xia">>) -> "danxia"
      [] ~PyContains(name, <<"dan", "xia">>) /\ PyContains(name, <<"qiang", "kou">>)
            -> "qiangkou"
      [] ~PyContains(name, <<"dan", "xia">>) /\ ~PyContains(name, <<"qiang", "kou">>)
         /\ PyContains(name, <<"wo", "ba">>) -> "woba"
      [] ~PyContains(name, <<"dan", "xia">>) /\ ~PyContains(name, <<"qiang", "kou">>)
         /\ ~PyContains(name, <<"wo", "ba">>)
         /\ (\/ PyContains(name, <<"miao", "ju">>)
             \/ PyContains(name, <<"miao", "zhun", "jing">>)
             \/ PyContains(name, <<"ji", "miao">>)) -> "jimiao"
      [] OTHER -> "zhujian"

\* C9: after a load of a readable generic table, every well-formed line (the
\* last one of its key) has its record under the key field 1, with the class
\* of its name and with parent = field 0 exactly when the class is not main
\* weapon; and the keys of the map are the fields 1 of the well-formed lines.
C9_GenericRecord ==
    (op = "load" /\ generic_file.present /\ generic_file.enc = "utf-8") =>
        LET lines == generic_file.lines
            KeyOf(i) == PyInt(FieldsOf(lines[i])[2])
        IN  /\ DOMAIN item_dict = {KeyOf(i) : i \in {j \in 1..Len(lines) : WellFormed(lines[j])}}
            /\ \A i \in 1..Len(lines) :
                 (/\ WellFormed(lines[i])
                  /\ \A j \in (i + 1)..Len(lines) : WellFormed(lines[j]) => KeyOf(j) # KeyOf(i))
                 => LET f == FieldsOf(lines[i])
                    IN  item_dict[KeyOf(i)] =
                            [name   |-> f[3],
                             type   |-> ClassOf(f[3]),
                             parent |-> IF ClassOf(f[3]) = "zhujian" THEN None
                                        ELSE {PyInt(f[1])}]

\* a name with the muzzle and the magazine marker, fields 0 and 1 different
C9_Witness ==
    /\ op = "load"
    /\ generic_file = File("utf-8", <<GenericLine4(<<"2">>, <<"1">>,
                                                   <<"qiang", "kou", "dan", "xia">>)>>)
    /\ DOMAIN item_dict = {1}
    /\ item_dict[1].type = "danxia"
    /\ item_dict[1].parent = {2}

\* C10: after a load the three generic maps agree: the main-weapon map has
\* exactly the IDs whose record is a main weapon, the sub-part map exactly the
\* others, and each stored name or parent is the one of the ID's record.
C10_MapsConsistent ==
    op = "load" =>
        /\ DOMAIN main_weapon_dict = {k \in DOMAIN item_dict : item_dict[k].type = "zhujian"}
        /\ DOMAIN sub_to_main_dict = {k \in DOMAIN item_dict : item_dict[k].type # "zhujian"}
        /\ (DOMAIN main_weapon_dict) \cap (DOMAIN sub_to_main_dict) = {}
        /\ \A k \in (DOMAIN main_weapon_dict) \cap (DOMAIN item_dict) :
               main_weapon_dict[k] = item_dict[k].name
        /\ \A k \in (DOMAIN sub_to_main_dict) \cap (DOMAIN item_dict) :
               sub_to_main_dict[k] = item_dict[k].parent

=============================================================================
